---- MODULE Spec2Model ----
(***************************************************************************)
(* binexpect: ttyspawn.interact() and its copy loop (binexpect/patched.py) *)
(* and promptMixin.prompt()/tryexpect() and binMixin.escape()              *)
(* (binexpect.py), as one single-threaded state machine.  The target, the  *)
(* operator's terminal and pexpect's expect() are the environment.         *)
(***************************************************************************)
EXTENDS Integers, Sequences, FiniteSets, TLC

VARIABLES
    pc,                 \* position of the running call ("idle" when none runs)
    top,                \* the call the script made: tryexpect, prompt, interact
    result,             \* how the script's call ended: "returned" or the exception
    outcome,            \* what expect() did inside tryexpect
    escape_character,   \* interact's argument: <<>> is None, <<cp>> the code point
    input_filter,
    output_filter,
    exitwithprogram,    \* tryexpect's argument
    p_exitwithprogram,  \* prompt's argument
    esc,                \* escape_character once encoded: <<>> or <<byte>>
    termMode,           \* the mode of the caller's terminal (STDIN_FILENO)
    mode,               \* interact's local `mode`
    restores,           \* tcsetattr calls made by the running interact
    iaState,            \* "none", "running", "returned", "raised"
    loopExit,           \* the way the copy loop was left
    alive,              \* self.isalive()
    signalstatus,       \* <<>> is None
    exitstatus,         \* <<>> is None
    seen,               \* what the status checks of prompt/tryexpect observed
    host,               \* the hosting process
    trace,              \* sys.stdout writes, os.kill and exit calls, in order
    buffer,             \* self.buffer
    shown,              \* bytes written to the caller's output
    r,                  \* the descriptors select/poll reported ready
    data,               \* __interact_writen's `data`
    after,              \* what follows __interact_writen: "break" or "loop"
    rawIn,              \* the chunk last read from the caller's input
    filtIn,             \* that chunk after input_filter
    fwd,                \* bytes of that chunk written to the target
    reads,              \* data-carrying reads made by the running copy loop
    pending,            \* the exception travelling through interact's finally
    s,                  \* escape()'s argument
    escaped,            \* escape()'s bytearray
    i,                  \* escape()'s loop index
    epc,                \* escape()'s position
    fromChild,          \* bytes read from the target by the running copy loop
    flushed,            \* what interact() found in self.buffer
    ttySettings,        \* <<VINTR, VEOF>> of the pty at construction; <<>> if unreadable
    _INTR,
    _EOF,
    ttyEcho,            \* the ECHO flag of the pty
    sends,              \* the arguments of self.send() in the running call
    warned,             \* warnings written to sys.stderr in the running call
    echo                \* setecho's argument in the running call; <<>> if not called

callVars == <<top, escape_character, input_filter, output_filter,
              exitwithprogram, p_exitwithprogram>>
envVars  == <<alive, signalstatus, exitstatus>>
ttyVars  == <<termMode, mode, restores>>
loopVars == <<r, data, after, rawIn, filtIn, fwd, reads, esc>>
ioVars   == <<buffer, shown>>
escVars  == <<s, escaped, i, epc>>
histVars == <<fromChild, flushed>>
ctlVars  == <<ttySettings, _INTR, _EOF, ttyEcho>>
sessVars == <<sends, warned, echo>>
vars == <<pc, result, outcome, callVars, envVars, ttyVars, loopVars, ioVars,
          escVars, histVars, ctlVars, sessVars, iaState, loopExit, seen, host,
          trace, pending>>

----------------------------------------------------------------------------
(* Bounds *)
MaxChunk == 3       \* longest chunk one read of the caller's input returns
MaxReads == 2       \* data-carrying reads in one run of the copy loop
MaxLen == 3         \* longest argument of escape()

(* Program constants *)
DefaultEscape == 29     \* chr(29), the default escape_character
Marker == 22            \* 0x16
DefaultIntr == 3        \* ^C
DefaultEof == 4         \* ^D

None == <<>>
Some(v) == <<v>>

InBytes == {29, 97}             \* what the operator can type
ChildBytes == {120, 121}        \* what the target can print
EscapeChars == {None, Some(29), Some(256)}
Filters == {"None", "swap"}
Signals == {9, 35}
ExitCodes == {0, 7}
Modes == {"cooked", "cbreak"}
Buffers == {<<>>, <<120>>}
ReadErrors == {"EIO", "EBADF"}
\* termios.tcgetattr(self.child_fd)[6] at construction: unreadable, or a pty
\* whose VINTR and VEOF are DEL and ^Z
TtySettings == {None, Some(<<127, 26>>)}
\* termios.CINTR and termios.CEOF, when the platform's termios has them
PlatformDefaults == {None, Some(<<3, 4>>)}

ChildChunks == {<<b>> : b \in ChildBytes}
EscBytes == {0, 22, 255}        \* bytes of escape()'s arguments

Running == [state |-> "running", n |-> 0]
Exited(c) == [state |-> "exited", n |-> c]
Killed(sn) == [state |-> "killed", n |-> sn]

SeqsUpTo(S, n) == UNION {[1..k -> S] : k \in 0..n}

----------------------------------------------------------------------------
(* Pure helpers *)

\* SIGNALS, restricted to the signal numbers of the model: 35 has no SIG name
SIGNALS == (9 :> "SIGKILL")

SigNameBare(sn) == IF sn \in DOMAIN SIGNALS THEN SIGNALS[sn] ELSE ""
SigName(sn) == IF sn \in DOMAIN SIGNALS THEN SIGNALS[sn] ELSE "Unknown"

Ev(e, n, name) == [ev |-> e, n |-> n, name |-> name]

SignalReport(sn) == Ev("Program received signal", sn, SigName(sn))
ExitReport(c) == Ev("Program exited with status", c, "")
KillNotice == Ev("Killing ourself with same signal.", 0, "")
ExitNotice == Ev("Exiting with same status.", 0, "")
KillCall(sn) == Ev("os.kill", sn, "")
ExitCall(c) == Ev("exit", c, "")

\* getattr(self, "signalstatus") is not None
HasStatusTruthy(st) == st # None /\ st[1] # 0
HasStatus(st) == st # None

\* the bare `raise` of an except clause
ReraiseDropped(exc) == "returned"
Reraise(exc) == exc

\* the writes and the call that mirror the target's end, in program order
MirrorSignalKillFirst(t, sn) == t \o <<KillNotice, KillCall(sn), SignalReport(sn)>>
MirrorSignal(t, sn) == t \o <<SignalReport(sn), KillNotice, KillCall(sn)>>
MirrorExit(t, c) == t \o <<ExitReport(c), ExitNotice, ExitCall(c)>>

\* the names patched.py binds at module level
ModuleNames == {"os", "pty", "tty", "sys", "termios", "spawn", "fdspawn",
                "poll_ignore_interrupts", "select_ignore_interrupts",
                "BinMixin", "PromptMixin", "ttyspawn"}

\* str.encode('latin-1') of a one-character string
CanEncodeLatin1(cp) == cp <= 255

\* a caller-supplied filter; "swap" exchanges the bytes 29 and 97, and the
\* bytes 120 and 121
FilterByte(b) == IF b = 29 THEN 97 ELSE IF b = 97 THEN 29
                 ELSE IF b = 120 THEN 121 ELSE IF b = 121 THEN 120 ELSE b
ApplyFilter(f, d) == IF f = "None" THEN d ELSE [k \in DOMAIN d |-> FilterByte(d[k])]

\* bytes.rfind of a one-byte needle: 0-based index of the last occurrence, or -1
FindFirst(d, e) ==
    LET hits == {k \in 1..Len(d) : d[k] = e}
    IN  IF hits = {} THEN -1
        ELSE (CHOOSE k \in hits : \A j \in hits : k <= j) - 1
RFindOrZero(d, e) ==
    LET hits == {k \in 1..Len(d) : d[k] = e}
    IN  IF hits = {} THEN 0
        ELSE (CHOOSE k \in hits : \A j \in hits : j <= k) - 1
RFind(d, e) ==
    LET hits == {k \in 1..Len(d) : d[k] = e}
    IN  IF hits = {} THEN -1
        ELSE (CHOOSE k \in hits : \A j \in hits : j <= k) - 1

\* if i != -1
EscapeFoundOrEmpty(f, at) == at # -1 \/ f = <<>>
EscapeFound(f, at) == at # -1

\* data[:n] and data[n:]
Take(d, n) == SubSeq(d, 1, n)
DropOne(d, n) == SubSeq(d, 2, Len(d))
Drop(d, n) == SubSeq(d, n + 1, Len(d))

\* lines 50-66: <<intr, eof>> from the pty, else from termios, else ^C and ^D
ResolveNoFallback(st, pd) ==
    IF st # None THEN st[1] ELSE IF pd # None THEN pd[1] ELSE <<0, 0>>
Resolve(st, pd) ==
    IF st # None THEN st[1]
    ELSE IF pd # None THEN pd[1]
    ELSE <<DefaultIntr, DefaultEof>>

\* self.send(b): b is handed to the target
send(log, b) == Append(log, b)

\* tty.setraw and tty.tcsetattr on the caller's terminal
setraw(m) == "raw"
tcsetattrSkipped(current, saved) == current
tcsetattr(current, saved) == saved

----------------------------------------------------------------------------
Init ==
    /\ pc = "idle" /\ top = "none" /\ result = "none" /\ outcome = "none"
    /\ escape_character = None /\ input_filter = "None" /\ output_filter = "None"
    /\ exitwithprogram = TRUE /\ p_exitwithprogram = TRUE
    /\ esc = None
    /\ termMode \in Modes /\ mode = "unset" /\ restores = 0
    /\ iaState = "none" /\ loopExit = "none"
    /\ alive = TRUE /\ signalstatus = None /\ exitstatus = None
    /\ seen = None
    /\ host = Running /\ trace = <<>>
    /\ buffer = <<>> /\ shown = <<>>
    /\ r = {} /\ data = <<>> /\ after = "none"
    /\ rawIn = None /\ filtIn = <<>> /\ fwd = <<>> /\ reads = 0
    /\ pending = "none"
    /\ s = <<>> /\ escaped = <<>> /\ i = 0 /\ epc = "idle"
    /\ fromChild = <<>> /\ flushed = <<>>
    /\ ttySettings \in TtySettings
    /\ \E pd \in PlatformDefaults :
          /\ _INTR = <<Resolve(ttySettings, pd)[1]>>
          /\ _EOF = <<Resolve(ttySettings, pd)[2]>>
    /\ ttyEcho = TRUE
    /\ sends = <<>> /\ warned = 0 /\ echo = None

----------------------------------------------------------------------------
(* The script's calls *)

Ready == pc = "idle" /\ host = Running

\* the call has ended and the script goes on: the records of the call and
\* the locals of its frames are dropped; the terminal, the target and
\* self.buffer stay as the call left them
ScriptContinues ==
    /\ pc = "done" /\ host = Running
    /\ pc' = "idle" /\ top' = "none"
    /\ result' = "none" /\ outcome' = "none" /\ esc' = None
    /\ escape_character' = None /\ input_filter' = "None"
    /\ output_filter' = "None"
    /\ exitwithprogram' = TRUE /\ p_exitwithprogram' = TRUE
    /\ mode' = "unset" /\ restores' = 0 /\ loopExit' = "none"
    /\ iaState' = "none"
    /\ seen' = None /\ trace' = <<>> /\ shown' = <<>>
    /\ r' = {} /\ data' = <<>> /\ after' = "none"
    /\ rawIn' = None /\ filtIn' = <<>> /\ fwd' = <<>> /\ reads' = 0
    /\ pending' = "none"
    /\ fromChild' = <<>> /\ flushed' = <<>>
    /\ sends' = <<>> /\ warned' = 0 /\ echo' = None
    /\ UNCHANGED <<envVars, termMode, buffer, host, escVars, ctlVars>>

CallTryexpect(ewp) ==
    /\ Ready
    /\ top' = "tryexpect" /\ exitwithprogram' = ewp /\ pc' = "te_119"
    /\ UNCHANGED <<escape_character, input_filter, output_filter,
                   p_exitwithprogram, result, outcome, envVars, ttyVars,
                   loopVars, ioVars, escVars, histVars, ctlVars, sessVars, iaState, loopExit, seen, host,
                   trace, pending>>

\* prompt(escape_character=ec, exitwithprogram=ewp), the filters left at None
CallPrompt(ec, ewp) ==
    /\ Ready
    /\ top' = "prompt" /\ pc' = "pr_76"
    /\ escape_character' = ec /\ input_filter' = "None" /\ output_filter' = "None"
    /\ p_exitwithprogram' = ewp
    /\ UNCHANGED <<exitwithprogram, result, outcome, envVars, ttyVars,
                   loopVars, ioVars, escVars, histVars, ctlVars, sessVars, iaState, loopExit, seen, host,
                   trace, pending>>

CallInteract(ec, inf, outf) ==
    /\ Ready
    /\ top' = "interact" /\ pc' = "ia_88"
    /\ escape_character' = ec /\ input_filter' = inf /\ output_filter' = outf
    /\ iaState' = "running"
    /\ UNCHANGED <<exitwithprogram, p_exitwithprogram, result, outcome,
                   envVars, ttyVars, loopVars, ioVars, escVars, histVars, ctlVars, sessVars, loopExit, seen,
                   host, trace, pending>>

\* the state a call that only sends or warns leaves alone
callFrame == <<escape_character, input_filter, output_filter, exitwithprogram,
               p_exitwithprogram, outcome, envVars, ttyVars, loopVars, ioVars,
               escVars, histVars, iaState, loopExit, seen, host, trace, pending>>

CallSetechoApplied(e) ==
    /\ Ready
    /\ top' = "setecho" /\ echo' = Some(e)
    /\ ttyEcho' = e
    /\ pc' = "done" /\ result' = "returned"
    /\ UNCHANGED <<callFrame, ttySettings, _INTR, _EOF, sends, warned>>

\* ttyspawn.setecho(echo)
CallSetecho(e) ==
    /\ Ready
    /\ top' = "setecho" /\ echo' = Some(e)
    /\ warned' = warned + 1
    /\ pc' = "done" /\ result' = "returned"
    /\ UNCHANGED <<callFrame, ctlVars, sends>>

CallSendeofIntr ==
    /\ Ready
    /\ top' = "sendeof"
    /\ sends' = send(sends, _INTR)
    /\ pc' = "done" /\ result' = "returned"
    /\ UNCHANGED <<callFrame, ctlVars, warned, echo>>

\* ttyspawn.sendeof()
CallSendeof ==
    /\ Ready
    /\ top' = "sendeof"
    /\ sends' = send(sends, _EOF)
    /\ pc' = "done" /\ result' = "returned"
    /\ UNCHANGED <<callFrame, ctlVars, warned, echo>>

\* binMixin.sendbin(x): self.send(self.escape(x))
CallSendbin(x) ==
    /\ Ready
    /\ top' = "sendbin"
    /\ sends' = send(sends, [k \in 1..(2 * Len(x)) |->
                               IF k % 2 = 1 THEN Marker ELSE x[k \div 2]])
    /\ pc' = "done" /\ result' = "returned"
    /\ UNCHANGED <<callFrame, ctlVars, warned, echo>>

----------------------------------------------------------------------------
(* The environment: the target ends.  Only isalive() observes it, so the   *)
(* end is taken at the positions that call isalive() next.                 *)

TargetDies ==
    /\ alive /\ host = Running
    /\ pc \in {"copy_120", "writen_105", "pr_90", "te_124"}
    /\ alive' = FALSE
    /\ \/ \E sn \in Signals : signalstatus' = Some(sn) /\ exitstatus' = None
       \/ \E c \in ExitCodes : signalstatus' = None /\ exitstatus' = Some(c)
       \/ signalstatus' = None /\ exitstatus' = None
    /\ UNCHANGED <<pc, result, outcome, callVars, ttyVars, loopVars, ioVars,
                   escVars, histVars, ctlVars, sessVars, iaState, loopExit, seen, host, trace, pending>>

----------------------------------------------------------------------------
(* ttyspawn.interact *)

InteractFlushKeep ==
    /\ pc = "ia_88" /\ host = Running
    /\ shown' = shown \o buffer
    /\ flushed' = buffer
    /\ pc' = "ia_91"
    /\ UNCHANGED <<result, outcome, callVars, envVars, ttyVars, loopVars,
                   buffer, escVars, fromChild, ctlVars, sessVars, iaState,
                   loopExit, seen, host, trace, pending>>

InteractFlush ==
    /\ pc = "ia_88" /\ host = Running
    /\ shown' = shown \o buffer
    /\ flushed' = buffer
    /\ buffer' = <<>>
    /\ pc' = "ia_91"
    /\ UNCHANGED <<result, outcome, callVars, envVars, ttyVars, loopVars,
                   escVars, fromChild, ctlVars, sessVars, iaState, loopExit, seen, host, trace,
                   pending>>

InteractSetRaw ==
    /\ pc = "ia_91" /\ host = Running
    /\ mode' = termMode
    /\ termMode' = setraw(termMode)
    /\ pc' = "ia_94"
    /\ UNCHANGED <<result, outcome, callVars, envVars, restores, loopVars,
                   ioVars, escVars, histVars, ctlVars, sessVars, iaState, loopExit, seen, host, trace,
                   pending>>

InteractEncode ==
    /\ pc = "ia_94" /\ host = Running
    /\ IF escape_character = None
       THEN /\ esc' = None /\ pc' = "copy_120"
            /\ UNCHANGED <<iaState, result>>
       ELSE IF CanEncodeLatin1(escape_character[1])
       THEN /\ esc' = Some(escape_character[1]) /\ pc' = "copy_120"
            /\ UNCHANGED <<iaState, result>>
       ELSE \* raised outside the try statement: no finally clause runs
            /\ iaState' = "raised" /\ result' = "UnicodeEncodeError"
            /\ pc' = "done"
            /\ UNCHANGED esc
    /\ UNCHANGED <<outcome, callVars, envVars, ttyVars, r, data, after, rawIn,
                   filtIn, fwd, reads, ioVars, escVars, histVars, ctlVars, sessVars, loopExit, seen, host,
                   trace, pending>>

InteractFinally ==
    /\ pc = "ia_99" /\ host = Running
    /\ termMode' = tcsetattr(termMode, mode)
    /\ restores' = restores + 1
    /\ IF pending = "none"
       THEN /\ iaState' = "returned"
            /\ pc' = IF top = "interact" THEN "done" ELSE "pr_90"
            /\ result' = IF top = "interact" THEN "returned" ELSE result
       ELSE /\ iaState' = "raised"
            /\ pc' = "done"
            /\ result' = pending
    /\ UNCHANGED <<outcome, callVars, envVars, mode, loopVars, ioVars, escVars, histVars, ctlVars, sessVars,
                   loopExit, seen, host, trace, pending>>

----------------------------------------------------------------------------
(* ttyspawn.__interact_copy and __interact_writen *)

CopyWhileForever ==
    /\ pc = "copy_120" /\ host = Running
    /\ pc' = "copy_121"
    /\ UNCHANGED <<result, outcome, callVars, envVars, ttyVars, loopVars,
                   ioVars, escVars, histVars, ctlVars, sessVars, iaState, loopExit, seen, host, trace,
                   pending>>

CopyWhile ==
    /\ pc = "copy_120" /\ host = Running
    /\ IF alive
       THEN pc' = "copy_121" /\ UNCHANGED loopExit
       ELSE pc' = "ia_99" /\ loopExit' = "notalive"
    /\ UNCHANGED <<result, outcome, callVars, envVars, ttyVars, loopVars,
                   ioVars, escVars, histVars, ctlVars, sessVars, iaState, seen, host, trace, pending>>

CopySelect ==
    /\ pc = "copy_121" /\ host = Running
    /\ \E ready \in (SUBSET {"child_fd", "STDIN_FILENO"}) \ {{}} : r' = ready
    /\ rawIn' = None /\ filtIn' = <<>> /\ fwd' = <<>>
    /\ pc' = "copy_127"
    /\ UNCHANGED <<result, outcome, callVars, envVars, ttyVars, data, after,
                   reads, esc, ioVars, escVars, histVars, ctlVars, sessVars, iaState, loopExit, seen, host,
                   trace, pending>>

CopyChildNotReady ==
    /\ pc = "copy_127" /\ host = Running
    /\ "child_fd" \notin r
    /\ pc' = "copy_142"
    /\ UNCHANGED <<result, outcome, callVars, envVars, ttyVars, loopVars,
                   ioVars, escVars, histVars, ctlVars, sessVars, iaState, loopExit, seen, host, trace,
                   pending>>

CopyChildDataUnfiltered ==
    /\ pc = "copy_127" /\ host = Running
    /\ "child_fd" \in r
    /\ reads < MaxReads
    /\ \E d \in ChildChunks :
          /\ fromChild' = fromChild \o d
          /\ shown' = shown \o d
    /\ reads' = reads + 1
    /\ pc' = "copy_142"
    /\ UNCHANGED <<result, outcome, callVars, envVars, ttyVars, r, data, after,
                   rawIn, filtIn, fwd, esc, buffer, escVars, flushed, ctlVars,
                   sessVars, iaState, loopExit, seen, host, trace, pending>>

CopyChildData ==
    /\ pc = "copy_127" /\ host = Running
    /\ "child_fd" \in r
    /\ reads < MaxReads
    /\ \E d \in ChildChunks :
          /\ fromChild' = fromChild \o d
          /\ shown' = shown \o (IF output_filter # "None"
                                 THEN ApplyFilter(output_filter, d) ELSE d)
    /\ reads' = reads + 1
    /\ pc' = "copy_142"
    /\ UNCHANGED <<result, outcome, callVars, envVars, ttyVars, r, data, after,
                   rawIn, filtIn, fwd, esc, buffer, escVars, flushed, ctlVars,
                   sessVars, iaState, loopExit, seen, host, trace, pending>>

CopyChildEmpty ==
    /\ pc = "copy_127" /\ host = Running
    /\ "child_fd" \in r
    /\ loopExit' = "eof0"
    /\ pc' = "ia_99"
    /\ UNCHANGED <<result, outcome, callVars, envVars, ttyVars, loopVars,
                   ioVars, escVars, histVars, ctlVars, sessVars, iaState, seen, host, trace, pending>>

CopyChildError(e) ==
    /\ pc = "copy_127" /\ host = Running
    /\ "child_fd" \in r
    /\ loopExit' = IF e = "EIO" THEN "eio" ELSE "error"
    /\ pending' = IF "errno" \notin ModuleNames THEN "NameError"
                  ELSE IF e = "EIO" THEN "none" ELSE "OSError"
    /\ pc' = "ia_99"
    /\ UNCHANGED <<result, outcome, callVars, envVars, ttyVars, loopVars,
                   ioVars, escVars, histVars, ctlVars, sessVars, iaState, seen, host, trace>>

CopyStdinNotReady ==
    /\ pc = "copy_142" /\ host = Running
    /\ "STDIN_FILENO" \notin r
    /\ pc' = "copy_120"
    /\ r' = {}
    /\ UNCHANGED <<result, outcome, callVars, envVars, ttyVars, data, after,
                   rawIn, filtIn, fwd, reads, esc,
                   ioVars, escVars, histVars, ctlVars, sessVars, iaState, loopExit, seen, host, trace,
                   pending>>

CopyStdin ==
    /\ pc = "copy_142" /\ host = Running
    /\ "STDIN_FILENO" \in r
    /\ \E d \in SeqsUpTo(InBytes, MaxChunk) :
          LET f == ApplyFilter(input_filter, d)
              at == IF esc # None THEN RFind(f, esc[1]) ELSE -1
          IN  /\ d # <<>> => reads < MaxReads
              /\ reads' = IF d # <<>> THEN reads + 1 ELSE reads
              /\ rawIn' = Some(d)
              /\ filtIn' = f
              /\ IF EscapeFound(f, at)
                 THEN data' = Take(f, at) /\ after' = "break"
                 ELSE data' = f /\ after' = "loop"
    /\ r' = {}            \* r is not read again in this iteration
    /\ pc' = "writen_105"
    /\ UNCHANGED <<result, outcome, callVars, envVars, ttyVars, fwd, esc,
                   ioVars, escVars, histVars, ctlVars, sessVars, iaState, loopExit, seen, host, trace,
                   pending>>

WritenWrite ==
    /\ pc = "writen_105" /\ host = Running
    /\ data # <<>> /\ alive
    /\ \E n \in 1..Len(data) :
          /\ fwd' = fwd \o Take(data, n)
          /\ data' = Drop(data, n)
    /\ UNCHANGED <<pc, result, outcome, callVars, envVars, ttyVars, r, after,
                   rawIn, filtIn, reads, esc, buffer, shown, escVars, histVars, ctlVars, sessVars, iaState,
                   loopExit, seen, host, trace, pending>>

WritenEnd ==
    /\ pc = "writen_105" /\ host = Running
    /\ ~(data # <<>> /\ alive)
    /\ IF after = "break"
       THEN pc' = "ia_99" /\ loopExit' = "escape"
       ELSE pc' = "copy_120" /\ UNCHANGED loopExit
    /\ UNCHANGED <<result, outcome, callVars, envVars, ttyVars, loopVars,
                   ioVars, escVars, histVars, ctlVars, sessVars, iaState, seen, host, trace, pending>>

----------------------------------------------------------------------------
(* promptMixin.prompt *)

\* lines 76-88: setecho, the two writes when stdout is a terminal, interact
PromptPrelude ==
    /\ pc = "pr_76" /\ host = Running
    /\ echo' = Some(TRUE) /\ warned' = warned + 1     \* self.setecho(echo)
    /\ \E isatty \in BOOLEAN :
          IF isatty /\ escape_character = None
          THEN \* ord(None)
               /\ pc' = "done" /\ result' = "TypeError"
               /\ UNCHANGED <<trace, iaState>>
          ELSE /\ trace' = IF isatty
                           THEN trace \o <<Ev("Escape character is",
                                              escape_character[1] + 64, "")>>
                           ELSE trace
               /\ pc' = "ia_88" /\ iaState' = "running"
               /\ UNCHANGED result
    /\ UNCHANGED <<outcome, callVars, envVars, ttyVars, loopVars, ioVars,
                   escVars, histVars, ctlVars, sends, loopExit, seen, host,
                   pending>>

\* lines 90-106, entered when interact has returned
PromptStatus ==
    /\ pc = "pr_90" /\ host = Running
    /\ seen' = Some([alive |-> alive, sig |-> signalstatus, exit |-> exitstatus])
    /\ LET back == IF top = "prompt" THEN "done" ELSE "te_122"
           res  == IF top = "prompt" THEN "returned" ELSE result
       IN  IF alive
           THEN pc' = back /\ result' = res /\ UNCHANGED <<trace, host>>
           ELSE IF HasStatus(signalstatus)
           THEN IF p_exitwithprogram
                THEN /\ trace' = MirrorSignal(trace, signalstatus[1])
                     /\ \/ /\ host' = Killed(signalstatus[1])
                           /\ pc' = "terminated" /\ UNCHANGED result
                        \/ \* the signal is ignored or handled by the host
                           /\ signalstatus[1] # 9
                           /\ pc' = back /\ result' = res /\ UNCHANGED host
                ELSE /\ trace' = trace \o <<SignalReport(signalstatus[1])>>
                     /\ pc' = back /\ result' = res /\ UNCHANGED host
           ELSE IF HasStatus(exitstatus)
           THEN IF p_exitwithprogram
                THEN /\ trace' = MirrorExit(trace, exitstatus[1])
                     /\ host' = Exited(exitstatus[1])
                     /\ pc' = "terminated" /\ result' = "SystemExit"
                ELSE /\ trace' = trace \o <<ExitReport(exitstatus[1])>>
                     /\ pc' = back /\ result' = res /\ UNCHANGED host
           ELSE pc' = back /\ result' = res /\ UNCHANGED <<trace, host>>
    /\ UNCHANGED <<outcome, callVars, envVars, ttyVars, loopVars, ioVars,
                   escVars, histVars, ctlVars, sessVars, iaState, loopExit, pending>>

----------------------------------------------------------------------------
(* promptMixin.tryexpect *)

ExpectMatch ==
    /\ pc = "te_119" /\ host = Running
    /\ outcome' = "match"
    /\ buffer' \in Buffers
    /\ pc' = "done" /\ result' = "returned"
    /\ UNCHANGED <<callVars, envVars, ttyVars, loopVars, shown,
                   escVars, histVars, ctlVars, sessVars, iaState, loopExit, seen, host, trace, pending>>

ExpectTimeoutNoHandoff ==
    /\ pc = "te_119" /\ host = Running
    /\ outcome' = "TIMEOUT"
    /\ buffer' \in Buffers
    /\ pc' = "te_122"
    /\ UNCHANGED <<callVars, result, envVars, ttyVars, loopVars, shown,
                   escVars, histVars, ctlVars, sessVars, iaState, loopExit, seen, host, trace, pending>>

\* except TIMEOUT: self.prompt("Didn't receive expected ...") with prompt's defaults
ExpectTimeout ==
    /\ pc = "te_119" /\ host = Running
    /\ outcome' = "TIMEOUT"
    /\ buffer' \in Buffers
    /\ escape_character' = Some(DefaultEscape)
    /\ input_filter' = "None" /\ output_filter' = "None"
    /\ p_exitwithprogram' = TRUE
    /\ pc' = "pr_76"
    /\ UNCHANGED <<top, exitwithprogram, result, envVars, ttyVars, loopVars,
                   shown, escVars, histVars, ctlVars, sessVars, iaState, loopExit, seen, host,
                   trace, pending>>

TryexpectContinue ==
    /\ pc = "te_122" /\ host = Running
    /\ trace' = trace \o <<Ev("Continuing script.", 0, "")>>
    /\ pc' = "done" /\ result' = "returned"
    /\ UNCHANGED <<outcome, callVars, envVars, ttyVars, loopVars, ioVars,
                   escVars, histVars, ctlVars, sessVars, iaState, loopExit, seen, host, pending>>

ExpectEOF ==
    /\ pc = "te_119" /\ host = Running
    /\ outcome' = "EOF"
    /\ pc' = "te_124"
    /\ UNCHANGED <<result, callVars, envVars, ttyVars, loopVars, ioVars,
                   escVars, histVars, ctlVars, sessVars, iaState, loopExit, seen, host, trace, pending>>

\* lines 123-141, the except EOF clause
TryexpectEOF ==
    /\ pc = "te_124" /\ host = Running
    /\ seen' = Some([alive |-> alive, sig |-> signalstatus, exit |-> exitstatus])
    /\ IF alive
       THEN pc' = "done" /\ result' = Reraise("EOF") /\ UNCHANGED <<trace, host>>
       ELSE IF HasStatus(signalstatus)
       THEN IF exitwithprogram
            THEN /\ trace' = MirrorSignal(trace, signalstatus[1])
                 /\ \/ /\ host' = Killed(signalstatus[1])
                       /\ pc' = "terminated" /\ UNCHANGED result
                    \/ \* the signal is ignored or handled by the host
                       /\ signalstatus[1] # 9
                       /\ pc' = "done" /\ result' = "returned" /\ UNCHANGED host
            ELSE /\ trace' = trace \o <<SignalReport(signalstatus[1])>>
                 /\ pc' = "done" /\ result' = "returned" /\ UNCHANGED host
       ELSE IF HasStatus(exitstatus)
       THEN IF exitwithprogram
            THEN /\ trace' = MirrorExit(trace, exitstatus[1])
                 /\ host' = Exited(exitstatus[1])
                 /\ pc' = "terminated" /\ result' = "SystemExit"
            ELSE /\ trace' = trace \o <<ExitReport(exitstatus[1])>>
                 /\ pc' = "done" /\ result' = "returned" /\ UNCHANGED host
       ELSE pc' = "done" /\ result' = Reraise("EOF") /\ UNCHANGED <<trace, host>>
    /\ UNCHANGED <<outcome, callVars, envVars, ttyVars, loopVars, ioVars,
                   escVars, histVars, ctlVars, sessVars, iaState, loopExit, pending>>

----------------------------------------------------------------------------
Next ==
    \/ \E ewp \in BOOLEAN : CallTryexpect(ewp)
    \/ \E ec \in EscapeChars, ewp \in BOOLEAN : CallPrompt(ec, ewp)
    \/ \E ec \in EscapeChars, inf \in Filters, outf \in Filters :
          CallInteract(ec, inf, outf)
    \/ \E e \in BOOLEAN : CallSetecho(e)
    \/ CallSendeof
    \/ CallSendbin(<<97>>)
    \/ ScriptContinues
    \/ TargetDies
    \/ InteractFlush
    \/ InteractSetRaw
    \/ InteractEncode
    \/ InteractFinally
    \/ CopyWhile
    \/ CopySelect
    \/ CopyChildNotReady
    \/ CopyChildData
    \/ CopyChildEmpty
    \/ \E e \in ReadErrors : CopyChildError(e)
    \/ CopyStdinNotReady
    \/ CopyStdin
    \/ WritenWrite
    \/ WritenEnd
    \/ PromptPrelude
    \/ PromptStatus
    \/ ExpectMatch
    \/ ExpectTimeout
    \/ TryexpectContinue
    \/ ExpectEOF
    \/ TryexpectEOF

Spec == Init /\ [][Next]_vars

\* the steps of interact(): one thread that keeps running once called;
\* the waits of select/poll, os.read and os.write return
InteractStep ==
    \/ InteractFlush \/ InteractSetRaw \/ InteractEncode \/ InteractFinally
    \/ CopyWhile \/ CopySelect
    \/ CopyChildNotReady \/ CopyChildData \/ CopyChildEmpty
    \/ \E e \in ReadErrors : CopyChildError(e)
    \/ CopyStdinNotReady \/ CopyStdin
    \/ WritenWrite \/ WritenEnd

\* interact() called by the script itself, on one terminal and one pty
InitLive == Init /\ ttySettings = None /\ termMode = "cooked"

NextLive ==
    \/ \E ec \in EscapeChars, inf \in Filters, outf \in Filters :
          CallInteract(ec, inf, outf)
    \/ ScriptContinues
    \/ TargetDies
    \/ InteractStep

SpecLive == InitLive /\ [][NextLive]_vars /\ WF_vars(InteractStep)

----------------------------------------------------------------------------
(* binMixin.escape, run on its own *)

mainVars == <<pc, result, outcome, callVars, envVars, ttyVars, loopVars, ioVars,
              histVars, ctlVars, sessVars, iaState, loopExit, seen, host, trace,
              pending>>

EscapeCall(x) ==
    /\ epc \in {"idle", "done"}
    /\ s' = x
    /\ escaped' = [k \in 1..(Len(x) * 2) |-> 0]
    /\ i' = 0
    /\ epc' = "loop"
    /\ UNCHANGED mainVars

EscapeStoreSwapped(b, k, c) == [b EXCEPT ![k * 2 + 1] = c, ![k * 2 + 2] = Marker]

\* escaped[i * 2] = 0x16; escaped[i * 2 + 1] = c   (0-based in the source)
EscapeStore(b, k, c) == [b EXCEPT ![k * 2 + 1] = Marker, ![k * 2 + 2] = c]

EscapeStep ==
    /\ epc = "loop" /\ i < Len(s)
    /\ escaped' = EscapeStore(escaped, i, s[i + 1])
    /\ i' = i + 1
    /\ UNCHANGED <<s, epc, mainVars>>

EscapeReturn ==
    /\ epc = "loop" /\ i = Len(s)
    /\ epc' = "done"
    /\ UNCHANGED <<s, escaped, i, mainVars>>

NextEscape ==
    \/ \E x \in SeqsUpTo(EscBytes, MaxLen) : EscapeCall(x)
    \/ EscapeStep
    \/ EscapeReturn

SpecEscape == Init /\ [][NextEscape]_vars

----------------------------------------------------------------------------
(* Properties *)

Range(q) == {q[k] : k \in DOMAIN q}
IsPrefix(p, q) == Len(p) <= Len(q) /\ SubSeq(q, 1, Len(p)) = p
InteractLeft == iaState \in {"returned", "raised"}
\* 1-based position of the last e in d (d holds e)
LastPos(d, e) == CHOOSE k \in 1..Len(d) :
                    d[k] = e /\ \A j \in (k + 1)..Len(d) : d[j] # e
\* a chunk was read from the caller's input and its forwarding has ended
ChunkHandled == rawIn # None /\ pc # "writen_105"
InLoop == pc \in {"copy_120", "copy_121", "copy_127", "copy_142", "writen_105"}

\* C1: whatever way the copy loop was left (zero-length read, EIO read,
\* escape byte, target not alive, error raised in the loop), once interact()
\* has returned or raised the caller's terminal is in the mode captured
\* before raw mode was entered.
C1_ModeRestoredAfterLoop ==
    (InteractLeft /\ loopExit # "none") => termMode = mode

C1_Witness ==
    /\ iaState = "raised" /\ loopExit = "error"
    /\ mode \in Modes /\ termMode = mode

\* C2: every interact() that entered raw mode has restored the captured mode
\* exactly once when control leaves it, on any exit path, the encoding of the
\* escape character included.
C2_RestoredOnEveryExit ==
    (InteractLeft /\ mode # "unset") => (termMode = mode /\ restores = 1)

\* C3: a zero-length read and an EIO read from the target end the loop alike
\* and interact() raises nothing.
C3_EofFlavoursAlike ==
    (InteractLeft /\ loopExit \in {"eof0", "eio"}) => iaState = "returned"

\* C4 as stated: when the chunk read from the caller's input (as the loop
\* searches it, after the input filter) holds the escape byte, exactly the
\* bytes before its last occurrence are forwarded and the loop ends.
C4_ExactlyBeforeLastEscape ==
    (ChunkHandled /\ esc # None /\ esc[1] \in Range(filtIn)) =>
        /\ loopExit = "escape" /\ ~InLoop
        /\ fwd = Take(filtIn, LastPos(filtIn, esc[1]) - 1)

\* C4 amended: when the chunk, after the input filter, holds the escape byte,
\* the loop ends without another read, nothing from the last escape byte on
\* is forwarded, what is forwarded is a prefix of the bytes before it, and it
\* is all of them unless the target stopped being alive.
C4_PrefixBeforeLastEscape ==
    (ChunkHandled /\ esc # None /\ esc[1] \in Range(filtIn)) =>
        LET before == Take(filtIn, LastPos(filtIn, esc[1]) - 1)
        IN  /\ loopExit = "escape" /\ ~InLoop
            /\ IsPrefix(fwd, before)
            /\ alive => fwd = before

C4_Witness ==
    /\ ChunkHandled /\ loopExit = "escape"
    /\ filtIn = <<97, 29, 29>> /\ fwd = <<97, 29>>

\* what the except EOF clause of tryexpect() observed
SawEOF(a, sg, ex) ==
    /\ top = "tryexpect" /\ outcome = "EOF" /\ seen # None
    /\ seen[1] = [alive |-> a, sig |-> sg, exit |-> ex]

\* C5: EOF in tryexpect(), target not alive, no signal status, exit status
\* c: the exit status c is reported and, unless exitwithprogram is False,
\* the hosting process exits with code c.
C5_ExitCodeMirrored ==
    \A c \in ExitCodes :
        SawEOF(FALSE, None, Some(c)) =>
            /\ \E k \in DOMAIN trace :
                  trace[k].ev = "Program exited with status" /\ trace[k].n = c
            /\ exitwithprogram => host = Exited(c)

C5_Witness ==
    SawEOF(FALSE, None, Some(0)) /\ exitwithprogram /\ host = Exited(0)

\* C6: EOF in tryexpect(), target not alive, signal status sn: the signal
\* is reported with its number and its name ("Unknown" when it has none) and,
\* unless exitwithprogram is False, os.kill sends sn to the hosting process.
C6_SignalMirrored ==
    \A sn \in Signals :
        (\E ex \in {None} \cup {Some(c) : c \in ExitCodes} :
            SawEOF(FALSE, Some(sn), ex)) =>
            /\ \E k \in DOMAIN trace :
                  /\ trace[k].ev = "Program received signal" /\ trace[k].n = sn
                  /\ trace[k].name = IF sn \in DOMAIN SIGNALS THEN SIGNALS[sn]
                                     ELSE "Unknown"
            /\ exitwithprogram =>
                  \E k \in DOMAIN trace : trace[k].ev = "os.kill" /\ trace[k].n = sn

C6_Witness ==
    /\ SawEOF(FALSE, Some(35), None) /\ exitwithprogram
    /\ host = Killed(35)

\* C7: TIMEOUT in tryexpect() with the target alive to the end: the
\* TIMEOUT is never raised to the caller, the hosting process keeps running,
\* tryexpect() returns only after interact() has returned, and once interact()
\* has returned tryexpect() returns normally.
C7_TimeoutHandsOffThenReturns ==
    (top = "tryexpect" /\ outcome = "TIMEOUT" /\ alive) =>
        /\ result # "TIMEOUT"
        /\ host = Running
        /\ result = "returned" =>
              /\ iaState = "returned"
              /\ trace # <<>> /\ trace[Len(trace)].ev = "Continuing script."
        /\ (pc = "done" /\ iaState = "returned") => result = "returned"

C7_Witness ==
    /\ top = "tryexpect" /\ outcome = "TIMEOUT" /\ alive
    /\ pc = "done" /\ result = "returned" /\ iaState = "returned"

\* C8: EOF in tryexpect() with the target alive, or not alive with neither
\* status available: the EOF is raised again, nothing is reported and the
\* hosting process is not terminated.
C8_EofReraised ==
    (\/ \E sg \in {None} \cup {Some(sn) : sn \in Signals},
           ex \in {None} \cup {Some(c) : c \in ExitCodes} : SawEOF(TRUE, sg, ex)
     \/ SawEOF(FALSE, None, None)) =>
        /\ pc = "done" /\ result = "EOF"
        /\ trace = <<>>
        /\ host = Running

C8_Witness ==
    SawEOF(FALSE, None, None) /\ result = "EOF" /\ host = Running

\* C9: escape(s) is twice as long as s, with 0x16 at every even position 2i
\* and s[i] at every odd position 2i+1 (0-based), in the order of s.
C9_EscapeFrames ==
    epc = "done" =>
        /\ Len(escaped) = 2 * Len(s)
        /\ \A k \in 1..Len(s) : escaped[2 * k - 1] = 22 /\ escaped[2 * k] = s[k]

C9_Witness ==
    epc = "done" /\ s = <<22, 0, 255>> /\ escaped = <<22, 22, 22, 0, 22, 255>>

\* C10: whenever the hosting process has ended itself to mirror the target,
\* by os.kill or by exit, from tryexpect() or from prompt(), the terminating
\* call is the last thing it did and the report naming the signal or the exit
\* status was written before it.
C10_ReportBeforeTermination ==
    host # Running =>
        /\ trace # <<>>
        /\ trace[Len(trace)].n = host.n
        /\ trace[Len(trace)].ev = IF host.state = "killed" THEN "os.kill" ELSE "exit"
        /\ \E k \in 1..(Len(trace) - 1) :
              /\ trace[k].n = host.n
              /\ trace[k].ev = IF host.state = "killed"
                               THEN "Program received signal"
                               ELSE "Program exited with status"

C10_Witness ==
    /\ host = Killed(9) /\ top = "tryexpect" /\ outcome = "TIMEOUT"
    /\ trace[Len(trace)] = KillCall(9)

\* what __interact_writen was asked to forward for the chunk last read
Intended == IF after = "break" THEN Take(filtIn, LastPos(filtIn, esc[1]) - 1)
            ELSE filtIn

\* C11: forwarding tolerates partial writes: at every moment the bytes
\* written so far followed by the bytes still to write are the chunk handed to
\* the forwarding step (each byte once, in order), and when the step has ended
\* either nothing is left or the target is no longer alive, with no error.
C11_PartialWritesComplete ==
    rawIn # None =>
        /\ fwd \o data = Intended
        /\ ChunkHandled => ((data = <<>> \/ ~alive) /\ pending = "none")

C11_Witness ==
    /\ ChunkHandled /\ ~alive
    /\ Len(fwd) = 1 /\ Len(data) = 2

\* C12 as stated: interact() is left by returning exactly when the target
\* reached EOF (a zero-length read or an EIO read), the escape byte was
\* detected or the target was no longer alive.
C12_ExitsOnlyAndAlwaysNormally ==
    /\ iaState = "returned" => loopExit \in {"eof0", "eio", "escape", "notalive"}
    /\ (InteractLeft /\ loopExit \in {"eof0", "eio", "escape", "notalive"}) =>
          iaState = "returned"

\* The part of C12 that holds: interact() returns only after a zero-length
\* read, an escape byte or the target no longer being alive, and once the
\* target is not alive, or an escape byte was found in the chunk read, the
\* loop is left.
C12_LoopTerminates ==
    /\ [](iaState = "returned" => loopExit \in {"eof0", "eio", "escape", "notalive"})
    /\ (InLoop /\ ~alive) ~> InteractLeft
    /\ (pc = "writen_105" /\ after = "break") ~> InteractLeft

C12_Witness ==
    /\ iaState = "returned" /\ loopExit = "notalive" /\ reads = MaxReads

C14_WholeChunkForwarded ==
    /\ (ChunkHandled /\ (esc = None \/ esc[1] \notin Range(filtIn))) =>
          (fwd = filtIn /\ after = "loop" /\ loopExit # "escape")
    /\ (iaState # "none" /\ escape_character = None) => loopExit # "escape"

\* C14 amended: what is forwarded is a prefix of the filtered chunk, and the
\* entire chunk unless the target stopped being alive; the rest as stated.
C14_ChunkForwardedWhileAlive ==
    /\ (ChunkHandled /\ (esc = None \/ esc[1] \notin Range(filtIn))) =>
          /\ IsPrefix(fwd, filtIn)
          /\ alive => fwd = filtIn
          /\ after = "loop" /\ loopExit # "escape"
    /\ (iaState # "none" /\ escape_character = None) => loopExit # "escape"

C14_Witness ==
    /\ ChunkHandled /\ escape_character = None /\ iaState = "running"
    /\ filtIn = <<29, 97, 29>> /\ fwd = filtIn /\ pc = "copy_121"

\* the EOF character the constructor had to resolve
ExpectedEof == IF ttySettings = None THEN 4 ELSE ttySettings[1][2]
ExpectedIntr == IF ttySettings = None THEN 3 ELSE ttySettings[1][1]

\* C15: sendeof() hands the target exactly one byte, the EOF character
\* resolved at construction, and nothing else; the descriptor stays open.
C15_SendeofOneByte ==
    [][(pc = "idle" /\ top' = "sendeof") =>
          /\ sends' = << <<ExpectedEof>> >>
          /\ result' = "returned" /\ pc' = "done"
          /\ UNCHANGED <<alive, _EOF, _INTR, ttyEcho, termMode, buffer, shown>>]_vars

C15_Witness ==
    top = "sendeof" /\ pc = "done" /\ sends = << <<26>> >>

\* C16: _INTR and _EOF are one byte each, VINTR and VEOF of the pty when
\* its settings could be read and 0x03 and 0x04 otherwise, in every state:
\* after construction and after every send, sendeof, setecho, interact and
\* tryexpect.
C16_ControlCharsFixed ==
    /\ Len(_INTR) = 1 /\ Len(_EOF) = 1
    /\ ttySettings # None =>
          (_INTR[1] = ttySettings[1][1] /\ _EOF[1] = ttySettings[1][2])
    /\ ttySettings = None => (_INTR = <<3>> /\ _EOF = <<4>>)

C16_Witness ==
    /\ ttySettings = None /\ _INTR = <<3>> /\ _EOF = <<4>>
    /\ top = "tryexpect" /\ outcome = "TIMEOUT" /\ iaState = "returned"
    /\ pc = "done"

\* C17: setecho(), called by the script or by prompt(), with True or with
\* False, writes its warning and changes neither the pty's echo flag nor any
\* other terminal setting or session state, and returns.
C17_SetechoNoOp ==
    [][((pc = "idle" /\ top' = "setecho") \/ pc = "pr_76") =>
          /\ warned' = warned + 1
          /\ UNCHANGED <<ttyEcho, ttySettings, _INTR, _EOF, termMode, mode,
                         envVars, buffer, shown, sends, host>>
          /\ top' = "setecho" => (result' = "returned" /\ pc' = "done")]_vars

C17_Witness ==
    /\ top = "setecho" /\ pc = "done" /\ echo = Some(FALSE)
    /\ warned = 1 /\ ttyEcho

\* C18: tryexpect(exitwithprogram=False) never ends the hosting process.
C18_SuppressedNeverTerminates ==
    (top = "tryexpect" /\ ~exitwithprogram) => host = Running

\* C19: once interact() is past its first three lines, self.buffer is
\* empty and what it held is the start of what has reached the caller's
\* output; this is so before raw mode is entered and before anything is read
\* from the target.
C19_BufferShownFirst ==
    /\ (iaState # "none" /\ pc # "ia_88") =>
          (buffer = <<>> /\ IsPrefix(flushed, shown))
    /\ (iaState = "running" /\ pc = "ia_88") => (shown = <<>> /\ mode = "unset")
    /\ (iaState = "running" /\ pc = "ia_91") =>
          (shown = flushed /\ mode = "unset" /\ fromChild = <<>>)

C19_Witness ==
    /\ iaState = "running" /\ flushed = <<120>> /\ fromChild = <<121>>
    /\ shown = <<120, 121>> /\ buffer = <<>> /\ termMode = "raw"

\* C20: a zero-length read from the caller's input forwards nothing and
\* does not end the loop: after it the loop goes on, and can be left only
\* through the target no longer being alive, a read from the target or a
\* later chunk.
C20_EmptyInputKeepsLooping ==
    (ChunkHandled /\ rawIn = Some(<<>>)) =>
        /\ fwd = <<>> /\ data = <<>>
        /\ after = "loop"
        /\ loopExit \in {"none", "notalive"}

C20_Witness ==
    /\ rawIn = Some(<<>>) /\ pc = "copy_121" /\ alive /\ iaState = "running"

====
